---- MODULE Spec2Model ----
(***************************************************************************)
(* A model of the ephemeral key pool (key_schedule.go) and of the session  *)
(* extra-data codec (u_session_extra.go) of the uTLS fork.                 *)
(*                                                                         *)
(* Three specifications share the variables:                               *)
(*   Spec        the key pool under concurrent goroutines;                 *)
(*   SpecCodec   the marshal/unmarshal functions applied to bounded inputs;*)
(*   SpecRecord  the SessionState.Extra operations applied in sequence.    *)
(***************************************************************************)
EXTENDS Integers, Sequences, FiniteSets, TLC

(***************************************************************************)
(* Bounds of the model.                                                    *)
(***************************************************************************)
\* goroutines that call into the key pool, each making one call
NumProcs == 2
\* key generations of one fill that may fail individually: slots 0..MaxFailIdx-1
MaxFailIdx == 1
\* length of the session IDs that are enumerated byte by byte
MaxIDLen == 2
\* slots a SessionState holds at first
MaxSlots == 3
\* the most fields of a container given to unmarshalSessionExtra
MaxFields == 3
\* calls made on one SessionState when the values reach the longest session ID
MaxCalls == 2

(***************************************************************************)
(* key_schedule.go: the key pool.                                          *)
(***************************************************************************)
keyCacheSize == 100

\* the CurveID values that have a cache and a curve (getCacheForCurveID,
\* curveForCurveID), and one that has neither
SupportedCurves == {"X25519", "CurveP256", "CurveP384", "CurveP521"}
CurveIDs == SupportedCurves \cup {"CurveOther"}

\* the order in which InitAllKeyCaches walks the caches
InitOrder == <<"X25519", "CurveP256", "CurveP384", "CurveP521">>

Procs == 1..NumProcs

\* a *ecdh.PrivateKey: nil, or a key generated for `curve` by goroutine `by`;
\* slot is the index of the fill loop that generated it, -1 for a key
\* generated directly by generateECDHEKey
NilKey == [curve |-> "none", by |-> 0, slot |-> -1]
NewKey(c, p, i) == [curve |-> c, by |-> p, slot |-> i]

\* the error values generateECDHEKey returns
ErrNone == "nil"
ErrUnsupported == "tls: internal error: unsupported curve"
ErrGenerate == "GenerateKey failed"

\* the outcomes of the GenerateKey calls of one fill: the set of loop indices
\* whose call fails (any subset of the first MaxFailIdx indices)
FailSets == SUBSET (0..(MaxFailIdx - 1))

VARIABLES
    keys,          \* keys[c]: the field kc.keys of the cache of curve c
    initialized,   \* initialized[c]: the field kc.initialized
    pc,            \* pc[p]: where goroutine p is
    op,            \* op[p]: the exported call p is in
    curveID,       \* curveID[p]: the argument of generateECDHEKey
    kc,            \* kc[p]: the cache p works on (`cache`, and the receiver kc)
    newKeys,       \* newKeys[p]: the local slice `keys` of keyCache.init
    pick,          \* pick[p]: the idx drawn by getRandomKey, -1 if none
    gen,           \* gen[p]: outcome of the direct curve.GenerateKey(rand)
    ret,           \* ret[p]: what generateECDHEKey returned
    obs,           \* obs[p]: the local `key` of line 152, what getRandomKey read
    writer,        \* writer[c]: the goroutine whose line 56 wrote kc.keys last
    stored,        \* stored[c]: the goroutines whose line 57 has stored the flag
    acq,           \* acq[p]: the stores p's load of line 62 is ordered after
    \* the codec functions applied to bounded inputs
    data,          \* the *UTLSSessionData given to the marshal functions
    buf,           \* the last []byte a marshal function returned
    bufOf,         \* the function that returned buf
    res,           \* the last (value, error) an unmarshal function returned
    resOf,         \* the function that returned res
    \* a SessionState and the calls made on it
    extra,         \* the field s.Extra
    lastOp,        \* the last of the four operations called on s
    lastArg,       \* the data given to the last SetSessionExtraFields
    prevExtra,     \* s.Extra before the last operation
    prev2Extra,    \* s.Extra before the operation before the last
    prevOp,        \* the operation before the last
    has,           \* what the last HasSessionExtra returned
    got,           \* what the last GetSessionExtraFields returned
    \* one call of an unmarshal function, statement by statement
    dec,           \* the call: its buffer, its locals and where it is
    \* the calls of trafficKey
    tk             \* tk[p]: the secret, the suite and the result of p's call

poolVars == <<keys, initialized, pc, op, curveID, kc, newKeys, pick, gen, ret,
              obs, writer, stored, acq>>
codecVars == <<data, buf, bufOf, res, resOf>>
recordVars == <<extra, lastOp, lastArg, prevExtra, prev2Extra, prevOp, has, got>>

decodeVars == <<dec>>
trafficVars == <<tk>>

vars == <<poolVars, codecVars, recordVars, decodeVars, trafficVars>>

NoRet == [key |-> NilKey, err |-> "pending"]

\* no trafficKey call made
NoTrafficKey == [called |-> FALSE]

\* a getCacheForCurveID whose default case returns a cache instead of nil
getCacheForCurveIDDefaultCache(c) == IF c \in SupportedCurves THEN c ELSE "X25519"

\* a getCacheForCurveID whose case CurveP384 returns the cache of CurveP256
getCacheForCurveIDSharedCache(c) ==
    IF c = "CurveP384" THEN "CurveP256"
    ELSE IF c \in SupportedCurves THEN c ELSE "none"

\* getCacheForCurveID: the cache of a curve ID, "none" for nil
getCacheForCurveID(c) == IF c \in SupportedCurves THEN c ELSE "none"

\* curveForCurveID: the ok result
curveForCurveID(c) == c \in SupportedCurves

\* where keyCache.init returns to: generateECDHEKey goes on to getRandomKey,
\* InitAllKeyCaches to the next cache or to its end
NextCache(c) ==
    LET i == CHOOSE j \in 1..Len(InitOrder) : InitOrder[j] = c
    IN  IF i < Len(InitOrder) THEN InitOrder[i + 1] ELSE "none"

InitReturn(p) ==
    IF op[p] = "generateECDHEKey"
    THEN /\ pc' = [pc EXCEPT ![p] = "grk_load"]
         /\ kc' = kc
    ELSE IF NextCache(kc[p]) = "none"
         THEN /\ pc' = [pc EXCEPT ![p] = "done"]
              /\ kc' = [kc EXCEPT ![p] = "none"]
         ELSE /\ pc' = [pc EXCEPT ![p] = "init_check"]
              /\ kc' = [kc EXCEPT ![p] = NextCache(kc[p])]

\* generateECDHEKey, lines 139-149: the cache lookup and the first load of
\* the flag, up to the call of cache.init
GenerateBegin(p, c) ==
    /\ pc[p] = "idle"
    /\ op' = [op EXCEPT ![p] = "generateECDHEKey"]
    /\ curveID' = [curveID EXCEPT ![p] = c]
    /\ ret' = [ret EXCEPT ![p] = NoRet]
    /\ pick' = [pick EXCEPT ![p] = -1]
    /\ gen' = [gen EXCEPT ![p] = "none"]
    /\ kc' = [kc EXCEPT ![p] = getCacheForCurveID(c)]
    /\ pc' = [pc EXCEPT ![p] =
                IF getCacheForCurveID(c) # "none"
                THEN IF ~initialized[getCacheForCurveID(c)] /\ curveForCurveID(c)
                     THEN "init_check"
                     ELSE "grk_load"
                ELSE "fallback"]
    /\ UNCHANGED <<keys, initialized, newKeys, obs, writer, stored, acq, codecVars, recordVars,
                   decodeVars, trafficVars>>

\* InitAllKeyCaches, line 89: the call of init on the first cache
InitAllBegin(p) ==
    /\ pc[p] = "idle"
    /\ op' = [op EXCEPT ![p] = "InitAllKeyCaches"]
    /\ curveID' = [curveID EXCEPT ![p] = "none"]
    /\ ret' = [ret EXCEPT ![p] = NoRet]
    /\ pick' = [pick EXCEPT ![p] = -1]
    /\ gen' = [gen EXCEPT ![p] = "none"]
    /\ pc' = [pc EXCEPT ![p] = "init_check"]
    /\ kc' = [kc EXCEPT ![p] = InitOrder[1]]
    /\ UNCHANGED <<keys, initialized, newKeys, obs, writer, stored, acq, codecVars, recordVars,
                   decodeVars, trafficVars>>

\* keyCache.init, lines 43-45: the load of the flag
InitCheckDone(p) ==
    /\ pc[p] = "init_check"
    /\ initialized[kc[p]]
    /\ InitReturn(p)
    /\ UNCHANGED <<keys, initialized, op, curveID, newKeys, pick, gen, ret,
                   obs, writer, stored, acq, codecVars, recordVars,
                   decodeVars, trafficVars>>

\* keyCache.init, lines 43-55: the flag was false; the fill loop builds the
\* local slice, a failed generation leaving its slot nil
FilledKeys(c, p, failed) ==
    [i \in 1..keyCacheSize |-> IF (i - 1) \in failed THEN NilKey ELSE NewKey(c, p, i - 1)]

InitFill(p) ==
    /\ pc[p] = "init_check"
    /\ ~initialized[kc[p]]
    /\ \E failed \in FailSets :
          newKeys' = [newKeys EXCEPT ![p] = FilledKeys(kc[p], p, failed)]
    /\ pc' = [pc EXCEPT ![p] = "init_assign"]
    /\ UNCHANGED <<keys, initialized, op, curveID, kc, pick, gen, ret,
                   obs, writer, stored, acq, codecVars, recordVars,
                   decodeVars, trafficVars>>

\* keyCache.init, line 56: kc.keys = keys
InitAssign(p) ==
    /\ pc[p] = "init_assign"
    /\ keys' = [keys EXCEPT ![kc[p]] = newKeys[p]]
    /\ writer' = [writer EXCEPT ![kc[p]] = p]
    /\ pc' = [pc EXCEPT ![p] = "init_store"]
    /\ UNCHANGED <<initialized, op, curveID, kc, newKeys, pick, gen, ret,
                   obs, stored, acq, codecVars, recordVars,
                   decodeVars, trafficVars>>

\* keyCache.init, line 57: kc.initialized.Store(true), and the return
InitStore(p) ==
    /\ pc[p] = "init_store"
    /\ initialized' = [initialized EXCEPT ![kc[p]] = TRUE]
    /\ stored' = [stored EXCEPT ![kc[p]] = @ \cup {p}]
    /\ newKeys' = [newKeys EXCEPT ![p] = << >>]
    /\ InitReturn(p)
    /\ UNCHANGED <<keys, op, curveID, pick, gen, ret, obs, writer, acq, codecVars, recordVars,
                   decodeVars, trafficVars>>

\* getRandomKey, line 62, first operand: the load of the flag; when it is
\* not set nil is returned and generateECDHEKey falls through to the direct
\* generation. The atomic load is ordered after every store of the flag made
\* so far, and so after what those goroutines wrote before their store.
GetRandomKeyLoad(p) ==
    /\ pc[p] = "grk_load"
    /\ pc' = [pc EXCEPT ![p] = IF initialized[kc[p]] THEN "grk_read" ELSE "fallback"]
    /\ acq' = [acq EXCEPT ![p] = stored[kc[p]]]
    /\ UNCHANGED <<keys, initialized, op, curveID, kc, newKeys, pick, gen, ret,
                   obs, writer, stored, codecVars, recordVars,
                   decodeVars, trafficVars>>

\* mathrand.IntN(n): an index in 0..n-1; the model draws the first indices
\* (those whose generation may have failed, and the one after them) and the
\* last one
IntN(n) == {i \in 0..(n - 1) : i <= MaxFailIdx \/ i = n - 1}

\* kc.keys is a plain field: line 56 writes it and lines 62-67 read it with no
\* lock. A read by p of the slice that goroutine w assigned is ordered after
\* w's writes only if p is w or p's load of the flag came after w's store of
\* it; otherwise the read races with w's fill and a slot w filled may still
\* read as nil.
Races(p, c) == writer[c] # p /\ writer[c] \notin acq[p]

SlotRead(p, c, idx) ==
    IF Races(p, c) THEN {keys[c][idx + 1], NilKey} ELSE {keys[c][idx + 1]}

\* a generateECDHEKey that returns what getRandomKey returned without the
\* nil test of line 152
GetRandomKeyReadUnchecked(p) ==
    /\ pc[p] = "grk_read"
    /\ IF Len(keys[kc[p]]) = 0
       THEN /\ pc' = [pc EXCEPT ![p] = "fallback"]
            /\ UNCHANGED <<pick, ret, obs>>
       ELSE \E idx \in IntN(Len(keys[kc[p]])) :
            \E key \in SlotRead(p, kc[p], idx) :
              /\ pick' = [pick EXCEPT ![p] = idx]
              /\ obs' = [obs EXCEPT ![p] = key]
              /\ ret' = [ret EXCEPT ![p] = [key |-> key, err |-> ErrNone]]
              /\ pc' = [pc EXCEPT ![p] = "done"]
    /\ UNCHANGED <<keys, initialized, op, curveID, kc, newKeys, gen,
                   writer, stored, acq, codecVars, recordVars,
                   decodeVars, trafficVars>>

\* getRandomKey, lines 62-67, and generateECDHEKey, lines 152-154: the slice
\* is empty and nil is returned, or an index below len(kc.keys) is drawn and
\* the slot read; a non-nil key is returned, a nil one falls through to the
\* direct generation
GetRandomKeyRead(p) ==
    /\ pc[p] = "grk_read"
    /\ IF Len(keys[kc[p]]) = 0
       THEN /\ pc' = [pc EXCEPT ![p] = "fallback"]
            /\ UNCHANGED <<pick, ret, obs>>
       ELSE \E idx \in IntN(Len(keys[kc[p]])) :
            \E key \in SlotRead(p, kc[p], idx) :
              /\ pick' = [pick EXCEPT ![p] = idx]
              /\ obs' = [obs EXCEPT ![p] = key]
              /\ IF key # NilKey
                 THEN /\ ret' = [ret EXCEPT ![p] = [key |-> key, err |-> ErrNone]]
                      /\ pc' = [pc EXCEPT ![p] = "done"]
                 ELSE /\ ret' = ret
                      /\ pc' = [pc EXCEPT ![p] = "fallback"]
    /\ UNCHANGED <<keys, initialized, op, curveID, kc, newKeys, gen,
                   writer, stored, acq, codecVars, recordVars,
                   decodeVars, trafficVars>>

\* generateECDHEKey, lines 158-161: no curve for the ID
FallbackUnsupported(p) ==
    /\ pc[p] = "fallback"
    /\ ~curveForCurveID(curveID[p])
    /\ ret' = [ret EXCEPT ![p] = [key |-> NilKey, err |-> ErrUnsupported]]
    /\ pc' = [pc EXCEPT ![p] = "done"]
    /\ UNCHANGED <<keys, initialized, op, curveID, kc, newKeys, pick, gen,
                   obs, writer, stored, acq, codecVars, recordVars,
                   decodeVars, trafficVars>>

\* generateECDHEKey, line 163: curve.GenerateKey(rand), which returns a key
\* or an error
FallbackResult(c, p, ok) ==
    IF ok THEN [key |-> NewKey(c, p, -1), err |-> ErrNone]
          ELSE [key |-> NilKey, err |-> ErrGenerate]

FallbackGenerate(p) ==
    /\ pc[p] = "fallback"
    /\ curveForCurveID(curveID[p])
    /\ \E ok \in BOOLEAN :
          /\ gen' = [gen EXCEPT ![p] = IF ok THEN "ok" ELSE "failed"]
          /\ ret' = [ret EXCEPT ![p] = FallbackResult(curveID[p], p, ok)]
    /\ pc' = [pc EXCEPT ![p] = "done"]
    /\ UNCHANGED <<keys, initialized, op, curveID, kc, newKeys, pick,
                   obs, writer, stored, acq, codecVars, recordVars,
                   decodeVars, trafficVars>>

PoolNext ==
    \E p \in Procs :
        \/ \E c \in CurveIDs : GenerateBegin(p, c)
        \/ InitAllBegin(p)
        \/ InitCheckDone(p)
        \/ InitFill(p)
        \/ InitAssign(p)
        \/ InitStore(p)
        \/ GetRandomKeyLoad(p)
        \/ GetRandomKeyRead(p)
        \/ FallbackUnsupported(p)
        \/ FallbackGenerate(p)


(***************************************************************************)
(* u_session_extra.go: the codec.                                          *)
(***************************************************************************)
SessionExtraUTLSData == 28673
SessionExtraVersion == 1

\* the ResumeMechanism values
ResumeUnknown == 0
ResumeSessionID == 1
ResumeSessionTicket == 2
ResumeMechanisms == {ResumeUnknown, ResumeSessionID, ResumeSessionTicket}

\* the longest session_id the payload format declares: opaque <0..2^16-1>
MaxSessionIDLen == 65535

\* a []byte a function returns: nil, or a slice with its bytes (0..255 each)
NilBytes == [isNil |-> TRUE, bytes |-> << >>]
Bytes(b) == [isNil |-> FALSE, bytes |-> b]

\* a *UTLSSessionData: nil, or a value; a nil or empty SessionID is << >>
NilData == [isNil |-> TRUE, ResumeType |-> ResumeUnknown, SessionID |-> << >>]
Data(t, id) == [isNil |-> FALSE, ResumeType |-> t, SessionID |-> id]

\* an error: nil, or a message with the field index it names, -1 for none
NoErr == [msg |-> "nil", field |-> -1]
Err(m, i) == [msg |-> m, field |-> i]

\* the conversions uint8(x) and uint16(x)
ToUint8(x) == x % 256
ToUint16(x) == x % 65536

\* binary.BigEndian.PutUint16: the two bytes of a uint16
PutUint16(v) == <<v \div 256, v % 256>>

\* binary.BigEndian.Uint16(b[off:])
Uint16(b, off) == b[off + 1] * 256 + b[off + 2]

\* a marshalUTLSSessionData that writes the length low byte first
marshalUTLSSessionDataLittleEndian(d) ==
    IF d.isNil \/ (d.ResumeType = ResumeUnknown /\ Len(d.SessionID) = 0)
    THEN NilBytes
    ELSE Bytes(<<ToUint8(d.ResumeType)>>
               \o <<ToUint16(Len(d.SessionID)) % 256, ToUint16(Len(d.SessionID)) \div 256>>
               \o d.SessionID)

\* a marshalUTLSSessionData whose line 40 tests `||` for `&&`
marshalUTLSSessionDataEitherEmpty(d) ==
    IF d.isNil \/ (d.ResumeType = ResumeUnknown \/ Len(d.SessionID) = 0)
    THEN NilBytes
    ELSE Bytes(<<ToUint8(d.ResumeType)>>
               \o PutUint16(ToUint16(Len(d.SessionID)))
               \o d.SessionID)

marshalUTLSSessionData(d) ==
    IF d.isNil \/ (d.ResumeType = ResumeUnknown /\ Len(d.SessionID) = 0)
    THEN NilBytes
    ELSE Bytes(<<ToUint8(d.ResumeType)>>
               \o PutUint16(ToUint16(Len(d.SessionID)))
               \o d.SessionID)

unmarshalUTLSSessionData(b) ==
    IF Len(b) < 3
    THEN [val |-> NilData, err |-> Err("invalid UTLS session data: too short", -1)]
    ELSE LET resumeType == b[1]
             sessionIDLen == Uint16(b, 1)
             offset == 3
         IN  IF offset + sessionIDLen > Len(b)
             THEN [val |-> NilData,
                   err |-> Err("invalid UTLS session data: session ID incomplete", -1)]
             ELSE [val |-> Data(resumeType,
                                IF sessionIDLen > 0
                                THEN SubSeq(b, offset + 1, offset + sessionIDLen)
                                ELSE << >>),
                   err |-> NoErr]

marshalSessionExtra(d) ==
    IF d.isNil \/ (d.ResumeType = ResumeUnknown /\ Len(d.SessionID) = 0)
    THEN NilBytes
    ELSE LET utlsDataBytes == marshalUTLSSessionData(d)
         IN  IF utlsDataBytes.isNil
             THEN NilBytes
             ELSE LET field == [ID |-> SessionExtraUTLSData,
                                Version |-> SessionExtraVersion,
                                Data |-> utlsDataBytes.bytes]
                  IN  Bytes(<<SessionExtraVersion>>
                            \o PutUint16(1)
                            \o PutUint16(ToUint16(field.ID))
                            \o <<field.Version>>
                            \o PutUint16(ToUint16(Len(field.Data)))
                            \o field.Data)

\* a field loop that rejects a field it does not know instead of stepping
\* over it
readFieldsRejectUnknown(extraData, fieldCount, i, offset) ==
    IF ~(i < fieldCount)
    THEN [val |-> NilData, err |-> NoErr]
    ELSE IF offset + 5 > Len(extraData)
    THEN [val |-> NilData, err |-> Err("invalid extra data: field header incomplete", i)]
    ELSE LET fieldID == Uint16(extraData, offset)
             fieldVersion == extraData[offset + 3]
             dataLength == Uint16(extraData, offset + 3)
             dataOffset == offset + 5
         IN  IF dataOffset + dataLength > Len(extraData)
             THEN [val |-> NilData,
                   err |-> Err("invalid extra data: field data incomplete", i)]
             ELSE LET fieldData == SubSeq(extraData, dataOffset + 1, dataOffset + dataLength)
                  IN  IF fieldVersion = SessionExtraVersion /\ fieldID = SessionExtraUTLSData
                      THEN unmarshalUTLSSessionData(fieldData)
                      ELSE [val |-> NilData,
                            err |-> Err("invalid extra data: unknown field", i)]

\* a field loop that ends at a field whose header or data is cut off, as if
\* the fields had ended there, instead of returning the errors of lines 193
\* and 210
RECURSIVE readFieldsStopAtTruncation(_, _, _, _)
readFieldsStopAtTruncation(extraData, fieldCount, i, offset) ==
    IF ~(i < fieldCount)
    THEN [val |-> NilData, err |-> NoErr]
    ELSE IF offset + 5 > Len(extraData)
    THEN [val |-> NilData, err |-> NoErr]
    ELSE LET fieldID == Uint16(extraData, offset)
             fieldVersion == extraData[offset + 3]
             dataLength == Uint16(extraData, offset + 3)
             dataOffset == offset + 5
         IN  IF dataOffset + dataLength > Len(extraData)
             THEN [val |-> NilData, err |-> NoErr]
             ELSE LET fieldData == SubSeq(extraData, dataOffset + 1, dataOffset + dataLength)
                  IN  IF fieldVersion = SessionExtraVersion /\ fieldID = SessionExtraUTLSData
                      THEN unmarshalUTLSSessionData(fieldData)
                      ELSE readFieldsStopAtTruncation(extraData, fieldCount,
                                                      ToUint16(i + 1),
                                                      dataOffset + dataLength)

\* unmarshalSessionExtra, lines 190-229: the loop over the fields, at field i
\* and offset `offset`
RECURSIVE readFields(_, _, _, _)
readFields(extraData, fieldCount, i, offset) ==
    IF ~(i < fieldCount)
    THEN [val |-> NilData, err |-> NoErr]
    ELSE IF offset + 5 > Len(extraData)
    THEN [val |-> NilData, err |-> Err("invalid extra data: field header incomplete", i)]
    ELSE LET fieldID == Uint16(extraData, offset)
             fieldVersion == extraData[offset + 3]
             dataLength == Uint16(extraData, offset + 3)
             dataOffset == offset + 5
         IN  IF dataOffset + dataLength > Len(extraData)
             THEN [val |-> NilData,
                   err |-> Err("invalid extra data: field data incomplete", i)]
             ELSE LET fieldData == SubSeq(extraData, dataOffset + 1, dataOffset + dataLength)
                  IN  IF fieldVersion = SessionExtraVersion /\ fieldID = SessionExtraUTLSData
                      THEN unmarshalUTLSSessionData(fieldData)
                      ELSE readFields(extraData, fieldCount, ToUint16(i + 1),
                                      dataOffset + dataLength)

unmarshalSessionExtra(extraData) ==
    IF Len(extraData) = 0
    THEN [val |-> NilData, err |-> NoErr]
    ELSE IF Len(extraData) < 3
    THEN [val |-> NilData, err |-> Err("invalid extra data: too short", -1)]
    ELSE IF extraData[1] # SessionExtraVersion
    THEN [val |-> NilData, err |-> NoErr]
    ELSE IF 1 + 2 > Len(extraData)
    THEN [val |-> NilData, err |-> Err("invalid extra data: cannot read field count", -1)]
    ELSE readFields(extraData, Uint16(extraData, 1), 0, 3)

\* the slots of s.Extra that carry the codec's version byte
IsOwned(extraItem) == Len(extraItem) >= 1 /\ extraItem[1] = SessionExtraVersion

HasSessionExtra(s) ==
    IF Len(s) = 0
    THEN FALSE
    ELSE \E k \in 1..Len(s) : IsOwned(s[k])

\* GetSessionExtraFields, lines 255-266: the loop over s.Extra from slot k
RECURSIVE getFrom(_, _)
getFrom(s, k) ==
    IF k > Len(s)
    THEN NilData
    ELSE IF IsOwned(s[k])
    THEN LET r == unmarshalSessionExtra(s[k])
         IN  IF r.err # NoErr THEN getFrom(s, k + 1) ELSE r.val
    ELSE getFrom(s, k + 1)

GetSessionExtraFields(s) ==
    IF ~HasSessionExtra(s) THEN NilData ELSE getFrom(s, 1)

\* ClearSessionExtraFields, lines 288-295: newExtra, from slot k on
RECURSIVE keepFrom(_, _)
keepFrom(s, k) ==
    IF k > Len(s)
    THEN << >>
    ELSE IF Len(s[k]) = 0 \/ s[k][1] # SessionExtraVersion
    THEN <<s[k]>> \o keepFrom(s, k + 1)
    ELSE keepFrom(s, k + 1)

\* a ClearSessionExtraFields that removes the first slot of the codec only
RECURSIVE dropFirstOwned(_, _)
dropFirstOwned(s, k) ==
    IF k > Len(s)
    THEN << >>
    ELSE IF Len(s[k]) = 0 \/ s[k][1] # SessionExtraVersion
    THEN <<s[k]>> \o dropFirstOwned(s, k + 1)
    ELSE SubSeq(s, k + 1, Len(s))

ClearSessionExtraFieldsFirstOnly(s) == dropFirstOwned(s, 1)

ClearSessionExtraFields(s) == keepFrom(s, 1)

\* a SetSessionExtraFields without the ClearSessionExtraFields of line 279
SetSessionExtraFieldsNoClear(s, d) ==
    LET extraData == marshalSessionExtra(d)
    IN  IF extraData.isNil
        THEN ClearSessionExtraFields(s)
        ELSE Append(s, extraData.bytes)

\* a SetSessionExtraFields that assigns s.Extra the new slot alone
SetSessionExtraFieldsOverwrite(s, d) ==
    LET extraData == marshalSessionExtra(d)
    IN  IF extraData.isNil
        THEN ClearSessionExtraFields(s)
        ELSE <<extraData.bytes>>

\* a SetSessionExtraFields that returns at once when there is nothing to
\* save, without the ClearSessionExtraFields of line 274
SetSessionExtraFieldsKeepOnEmpty(s, d) ==
    LET extraData == marshalSessionExtra(d)
    IN  IF extraData.isNil
        THEN s
        ELSE Append(ClearSessionExtraFields(s), extraData.bytes)

SetSessionExtraFields(s, d) ==
    LET extraData == marshalSessionExtra(d)
    IN  IF extraData.isNil
        THEN ClearSessionExtraFields(s)
        ELSE Append(ClearSessionExtraFields(s), extraData.bytes)

(***************************************************************************)
(* The inputs of the codec and of the record operations.                   *)
(***************************************************************************)
\* bytes that short session IDs are made of
ByteSample == {0, SessionExtraVersion, 255}

\* all sequences over S of length at most n
RECURSIVE SeqsUpTo(_, _)
SeqsUpTo(S, n) ==
    IF n = 0
    THEN {<< >>}
    ELSE LET shorter == SeqsUpTo(S, n - 1)
         IN  shorter \cup {Append(q, x) : q \in {r \in shorter : Len(r) = n - 1}, x \in S}

\* n ascending bytes 0x00, 0x01, ...
Ascending(n) == [i \in 1..n |-> (i - 1) % 256]

\* session IDs: every short one, the 32 ascending bytes of a TLS session ID,
\* and the longest ones the payload format declares
LongLens == {32, MaxSessionIDLen - 3, MaxSessionIDLen - 2, MaxSessionIDLen - 1, MaxSessionIDLen}
SessionIDs == SeqsUpTo(ByteSample, MaxIDLen) \cup {Ascending(n) : n \in LongLens}

DataValues == {Data(t, id) : t \in ResumeMechanisms, id \in SessionIDs} \cup {NilData}

IsEmptyData(d) == d.ResumeType = ResumeUnknown /\ Len(d.SessionID) = 0

NoRes == [val |-> NilData, err |-> NoErr]

\* no unmarshal call under way
NoCall == [pc |-> "idle"]

\* a field as it lies in a container: id, version, data length, data
FieldBytes(f) ==
    PutUint16(f.ID) \o <<f.Version>> \o PutUint16(Len(f.Data)) \o f.Data

RECURSIVE FieldsBytes(_)
FieldsBytes(fs) ==
    IF Len(fs) = 0 THEN << >> ELSE FieldBytes(Head(fs)) \o FieldsBytes(Tail(fs))

\* a container: version, field count, fields
Container(version, count, fs) == <<version>> \o PutUint16(count) \o FieldsBytes(fs)

\* fields a container may carry: the known field with a payload that decodes,
\* with one whose session ID is incomplete and with one that is too short; a
\* field with another ID; the known ID with another field version; an empty
\* field with another ID
FieldSample ==
    { [ID |-> SessionExtraUTLSData, Version |-> SessionExtraVersion,
       Data |-> <<ResumeSessionID, 0, 1, 255>>],
      [ID |-> SessionExtraUTLSData, Version |-> SessionExtraVersion,
       Data |-> <<ResumeSessionTicket, 0, 2, 0>>],
      [ID |-> SessionExtraUTLSData, Version |-> SessionExtraVersion,
       Data |-> <<ResumeSessionID>>],
      [ID |-> SessionExtraUTLSData + 1, Version |-> SessionExtraVersion,
       Data |-> <<9, 9>>],
      [ID |-> SessionExtraUTLSData, Version |-> SessionExtraVersion + 1,
       Data |-> <<ResumeSessionID, 0, 0>>],
      [ID |-> 1, Version |-> SessionExtraVersion, Data |-> << >>] }

FieldSeqs == SeqsUpTo(FieldSample, MaxFields)

\* containers of version 0x01 whose field count is the number of fields they
\* carry, is 0 or is more than they carry, and the same fields under another
\* version
Containers ==
    { Container(SessionExtraVersion, count, fs) :
        count \in {0, MaxFields + 1}, fs \in FieldSeqs }
    \cup { Container(version, Len(fs), fs) :
        version \in {SessionExtraVersion, SessionExtraVersion + 1}, fs \in FieldSeqs }

Prefixes(b) == {SubSeq(b, 1, n) : n \in 0..Len(b)}

\* the buffers given to the decoders: every container above cut at every
\* length, and every short sequence of bytes
Buffers ==
    UNION {Prefixes(b) : b \in Containers} \cup SeqsUpTo(ByteSample, MaxIDLen + 1)

(***************************************************************************)
(* Spec: the key pool.                                                     *)
(***************************************************************************)
\* no goroutine has called yet: every cache is the zero keyCache
Init ==
    /\ keys = [c \in SupportedCurves |-> << >>]
    /\ initialized = [c \in SupportedCurves |-> FALSE]
    /\ pc = [p \in Procs |-> "idle"]
    /\ op = [p \in Procs |-> "none"]
    /\ curveID = [p \in Procs |-> "none"]
    /\ kc = [p \in Procs |-> "none"]
    /\ newKeys = [p \in Procs |-> << >>]
    /\ pick = [p \in Procs |-> -1]
    /\ gen = [p \in Procs |-> "none"]
    /\ ret = [p \in Procs |-> NoRet]
    /\ obs = [p \in Procs |-> NilKey]
    /\ writer = [c \in SupportedCurves |-> 0]
    /\ stored = [c \in SupportedCurves |-> {}]
    /\ acq = [p \in Procs |-> {}]
    /\ data = NilData
    /\ buf = NilBytes
    /\ bufOf = "none"
    /\ res = NoRes
    /\ resOf = "none"
    /\ extra = << >>
    /\ lastOp = "none"
    /\ lastArg = NilData
    /\ prevExtra = << >>
    /\ prev2Extra = << >>
    /\ prevOp = "none"
    /\ has = FALSE
    /\ got = NilData
    /\ dec = NoCall
    /\ tk = [p \in Procs |-> NoTrafficKey]

Next == PoolNext

Spec == Init /\ [][Next]_vars

(***************************************************************************)
(* SpecCodec: the four codec functions applied to a value and to the       *)
(* buffers they return.                                                    *)
(***************************************************************************)
\* no function has been called yet; each behaviour takes one value or one
\* buffer and applies the functions to it
CodecInit ==
    /\ data = NilData
    /\ buf = NilBytes
    /\ bufOf = "none"
    /\ res = NoRes
    /\ resOf = "none"
    /\ keys = [c \in SupportedCurves |-> << >>]
    /\ initialized = [c \in SupportedCurves |-> FALSE]
    /\ pc = [p \in Procs |-> "idle"]
    /\ op = [p \in Procs |-> "none"]
    /\ curveID = [p \in Procs |-> "none"]
    /\ kc = [p \in Procs |-> "none"]
    /\ newKeys = [p \in Procs |-> << >>]
    /\ pick = [p \in Procs |-> -1]
    /\ gen = [p \in Procs |-> "none"]
    /\ ret = [p \in Procs |-> NoRet]
    /\ obs = [p \in Procs |-> NilKey]
    /\ writer = [c \in SupportedCurves |-> 0]
    /\ stored = [c \in SupportedCurves |-> {}]
    /\ acq = [p \in Procs |-> {}]
    /\ extra = << >>
    /\ lastOp = "none"
    /\ lastArg = NilData
    /\ prevExtra = << >>
    /\ prev2Extra = << >>
    /\ prevOp = "none"
    /\ has = FALSE
    /\ got = NilData
    /\ dec = NoCall
    /\ tk = [p \in Procs |-> NoTrafficKey]

CallMarshalUTLSSessionData ==
    /\ bufOf = "none"
    /\ \E d \in DataValues :
          /\ data' = d
          /\ buf' = marshalUTLSSessionData(d)
    /\ bufOf' = "marshalUTLSSessionData"
    /\ res' = NoRes
    /\ resOf' = "none"
    /\ UNCHANGED <<poolVars, recordVars,
                   decodeVars, trafficVars>>

CallMarshalSessionExtra ==
    /\ bufOf = "none"
    /\ \E d \in DataValues :
          /\ data' = d
          /\ buf' = marshalSessionExtra(d)
    /\ bufOf' = "marshalSessionExtra"
    /\ res' = NoRes
    /\ resOf' = "none"
    /\ UNCHANGED <<poolVars, recordVars,
                   decodeVars, trafficVars>>

\* a buffer that comes from storage or from a peer, not from a marshal call
ReceiveBuffer ==
    /\ bufOf = "none"
    /\ data' = NilData
    /\ \E b \in Buffers : buf' = Bytes(b)
    /\ bufOf' = "received"
    /\ res' = NoRes
    /\ resOf' = "none"
    /\ UNCHANGED <<poolVars, recordVars,
                   decodeVars, trafficVars>>

CallUnmarshalUTLSSessionData ==
    /\ bufOf # "none"
    /\ res' = unmarshalUTLSSessionData(buf.bytes)
    /\ resOf' = "unmarshalUTLSSessionData"
    /\ UNCHANGED <<data, buf, bufOf, poolVars, recordVars,
                   decodeVars, trafficVars>>

CallUnmarshalSessionExtra ==
    /\ bufOf # "none"
    /\ res' = unmarshalSessionExtra(buf.bytes)
    /\ resOf' = "unmarshalSessionExtra"
    /\ UNCHANGED <<data, buf, bufOf, poolVars, recordVars,
                   decodeVars, trafficVars>>

CodecNext ==
    \/ CallMarshalUTLSSessionData
    \/ CallMarshalSessionExtra
    \/ ReceiveBuffer
    \/ CallUnmarshalUTLSSessionData
    \/ CallUnmarshalSessionExtra

SpecCodec == CodecInit /\ [][CodecNext]_vars

(***************************************************************************)
(* SpecRecord: the four operations called in any order on a SessionState.  *)
(***************************************************************************)
\* the slots a record may hold at first: foreign ones (empty, or with another
\* first byte), ones that carry the version byte without being a container
\* of this codec, and containers marshalSessionExtra wrote
SlotSample ==
    { << >>, <<0>>, <<2, SessionExtraVersion>>,
      <<SessionExtraVersion>>,
      <<SessionExtraVersion, 0, 0>>,
      <<SessionExtraVersion, 0, 1>>,
      marshalSessionExtra(Data(ResumeSessionID, <<0, 255>>)).bytes }

\* the values given to SetSessionExtraFields
ArgSample ==
    { NilData,
      Data(ResumeUnknown, << >>),
      Data(ResumeUnknown, <<SessionExtraVersion>>),
      Data(ResumeSessionTicket, << >>),
      Data(ResumeSessionID, <<0, 255>>) }

RecordInit ==
    /\ extra \in SeqsUpTo(SlotSample, MaxSlots)
    /\ lastOp = "none"
    /\ lastArg = NilData
    /\ prevExtra = << >>
    /\ prev2Extra = << >>
    /\ prevOp = "none"
    /\ has = FALSE
    /\ got = NilData
    /\ dec = NoCall
    /\ tk = [p \in Procs |-> NoTrafficKey]
    /\ keys = [c \in SupportedCurves |-> << >>]
    /\ initialized = [c \in SupportedCurves |-> FALSE]
    /\ pc = [p \in Procs |-> "idle"]
    /\ op = [p \in Procs |-> "none"]
    /\ curveID = [p \in Procs |-> "none"]
    /\ kc = [p \in Procs |-> "none"]
    /\ newKeys = [p \in Procs |-> << >>]
    /\ pick = [p \in Procs |-> -1]
    /\ gen = [p \in Procs |-> "none"]
    /\ ret = [p \in Procs |-> NoRet]
    /\ obs = [p \in Procs |-> NilKey]
    /\ writer = [c \in SupportedCurves |-> 0]
    /\ stored = [c \in SupportedCurves |-> {}]
    /\ acq = [p \in Procs |-> {}]
    /\ data = NilData
    /\ buf = NilBytes
    /\ bufOf = "none"
    /\ res = NoRes
    /\ resOf = "none"

\* the history every call leaves
Called(name) ==
    /\ lastOp' = name
    /\ prevOp' = lastOp
    /\ prevExtra' = extra
    /\ prev2Extra' = prevExtra

CallHasSessionExtra ==
    /\ has' = HasSessionExtra(extra)
    /\ Called("HasSessionExtra")
    /\ UNCHANGED <<extra, lastArg, got, poolVars, codecVars,
                   decodeVars, trafficVars>>

CallGetSessionExtraFields ==
    /\ got' = GetSessionExtraFields(extra)
    /\ Called("GetSessionExtraFields")
    /\ UNCHANGED <<extra, lastArg, has, poolVars, codecVars,
                   decodeVars, trafficVars>>

CallSetSessionExtraFields(d) ==
    /\ extra' = SetSessionExtraFields(extra, d)
    /\ lastArg' = d
    /\ Called("SetSessionExtraFields")
    /\ UNCHANGED <<has, got, poolVars, codecVars,
                   decodeVars, trafficVars>>

CallClearSessionExtraFields ==
    /\ extra' = ClearSessionExtraFields(extra)
    /\ Called("ClearSessionExtraFields")
    /\ UNCHANGED <<lastArg, has, got, poolVars, codecVars,
                   decodeVars, trafficVars>>

RecordNext ==
    \/ CallHasSessionExtra
    \/ CallGetSessionExtraFields
    \/ \E d \in ArgSample : CallSetSessionExtraFields(d)
    \/ CallClearSessionExtraFields

SpecRecord == RecordInit /\ [][RecordNext]_vars

(***************************************************************************)
(* SpecDecode: one call of unmarshalSessionExtra or of                     *)
(* unmarshalUTLSSessionData on a received buffer, statement by statement.  *)
(* dec.in is the buffer of the call; dec.lo and dec.hi bound the slice the *)
(* running function works on (the whole buffer, or fieldData inside        *)
(* unmarshalSessionExtra's buffer); dec.offset is the local `offset` of    *)
(* that function, counted from dec.lo; dec.hiRead is the highest index of  *)
(* that slice read so far; dec.steps counts the statements taken. An index *)
(* expression or a slice expression out of range panics: dec.pc becomes    *)
(* "panic".                                                                *)
(***************************************************************************)
DecodeInit ==
    /\ dec = NoCall
    /\ tk = [p \in Procs |-> NoTrafficKey]
    /\ keys = [c \in SupportedCurves |-> << >>]
    /\ initialized = [c \in SupportedCurves |-> FALSE]
    /\ pc = [p \in Procs |-> "idle"]
    /\ op = [p \in Procs |-> "none"]
    /\ curveID = [p \in Procs |-> "none"]
    /\ kc = [p \in Procs |-> "none"]
    /\ newKeys = [p \in Procs |-> << >>]
    /\ pick = [p \in Procs |-> -1]
    /\ gen = [p \in Procs |-> "none"]
    /\ ret = [p \in Procs |-> NoRet]
    /\ obs = [p \in Procs |-> NilKey]
    /\ writer = [c \in SupportedCurves |-> 0]
    /\ stored = [c \in SupportedCurves |-> {}]
    /\ acq = [p \in Procs |-> {}]
    /\ data = NilData
    /\ buf = NilBytes
    /\ bufOf = "none"
    /\ res = NoRes
    /\ resOf = "none"
    /\ extra = << >>
    /\ lastOp = "none"
    /\ lastArg = NilData
    /\ prevExtra = << >>
    /\ prev2Extra = << >>
    /\ prevOp = "none"
    /\ has = FALSE
    /\ got = NilData

DecodeFrame == UNCHANGED <<poolVars, codecVars, recordVars, trafficVars>>

\* len(...) of the slice the running function works on
SliceLen == dec.hi - dec.lo

\* the byte at index k of that slice
At(k) == dec.in[dec.lo + k + 1]

\* the index expressions at the indices ks and the slice expressions with the
\* bounds bs are in range
InRange(ks, bs) == (\A k \in ks : k >= 0 /\ k < SliceLen) /\ (\A b \in bs : b >= 0 /\ b <= SliceLen)

\* dec after a statement that read the indices ks, sliced at bs, and went on
\* as `next` says
AfterReads(ks, bs, next) ==
    IF InRange(ks, bs)
    THEN [next EXCEPT !.hiRead = IF ks = {} \/ \A k \in ks : k <= next.hiRead
                                  THEN next.hiRead
                                  ELSE CHOOSE k \in ks : \A j \in ks : j <= k]
    ELSE [dec EXCEPT !.pc = "panic"]

Return(val, err) == [dec EXCEPT !.pc = "done", !.res = [val |-> val, err |-> err]]

\* one more statement taken
Stepped(d) == [d EXCEPT !.steps = dec.steps + 1]

\* the call of either function on a received buffer
DecodeBegin ==
    /\ dec.pc = "idle"
    /\ \E b \in Buffers, fn \in {"unmarshalSessionExtra", "unmarshalUTLSSessionData"} :
          dec' = [fn |-> fn, in |-> b, lo |-> 0, hi |-> Len(b),
                  pc |-> IF fn = "unmarshalSessionExtra" THEN "extra_len" ELSE "payload_len",
                  offset |-> 0, i |-> 0, fieldCount |-> 0,
                  fieldID |-> 0, fieldVersion |-> 0, dataLength |-> 0,
                  resumeType |-> 0, sessionIDLen |-> 0,
                  hiRead |-> -1, steps |-> 1, res |-> NoRes]
    /\ DecodeFrame

\* unmarshalSessionExtra, lines 164-172
ExtraLen ==
    /\ dec.pc = "extra_len"
    /\ dec' = Stepped(IF SliceLen = 0
              THEN Return(NilData, NoErr)
              ELSE IF SliceLen < 3
              THEN Return(NilData, Err("invalid extra data: too short", -1))
              ELSE [dec EXCEPT !.pc = "extra_version", !.offset = 0])
    /\ DecodeFrame

\* lines 175-181: version := extraData[offset]
ExtraVersion ==
    /\ dec.pc = "extra_version"
    /\ dec' = Stepped(AfterReads({dec.offset}, {},
                 IF At(dec.offset) # SessionExtraVersion
                 THEN [Return(NilData, NoErr) EXCEPT !.offset = dec.offset + 1]
                 ELSE [dec EXCEPT !.pc = "extra_count", !.offset = dec.offset + 1]))
    /\ DecodeFrame

\* lines 184-188: the field count
ExtraCount ==
    /\ dec.pc = "extra_count"
    /\ dec' = Stepped(IF dec.offset + 2 > SliceLen
              THEN Return(NilData, Err("invalid extra data: cannot read field count", -1))
              ELSE AfterReads({dec.offset, dec.offset + 1}, {dec.offset},
                      [dec EXCEPT !.pc = "extra_loop",
                                  !.fieldCount = At(dec.offset) * 256 + At(dec.offset + 1),
                                  !.offset = dec.offset + 2,
                                  !.i = 0]))
    /\ DecodeFrame

\* offset + 5 > len(extraData) of line 192, as a mutant writes it: + 4
ExtraLoopHeaderOfFour ==
    /\ dec.pc = "extra_loop"
    /\ dec' = Stepped(IF ~(dec.i < dec.fieldCount)
              THEN Return(NilData, NoErr)
              ELSE IF dec.offset + 4 > SliceLen
              THEN Return(NilData, Err("invalid extra data: field header incomplete", dec.i))
              ELSE [dec EXCEPT !.pc = "extra_header"])
    /\ DecodeFrame

\* lines 191-194 and 229: the loop condition and the test of the header
ExtraLoop ==
    /\ dec.pc = "extra_loop"
    /\ dec' = Stepped(IF ~(dec.i < dec.fieldCount)
              THEN Return(NilData, NoErr)
              ELSE IF dec.offset + 5 > SliceLen
              THEN Return(NilData, Err("invalid extra data: field header incomplete", dec.i))
              ELSE [dec EXCEPT !.pc = "extra_header"])
    /\ DecodeFrame

\* lines 197-206: field ID, field version, data length
ExtraHeader ==
    /\ dec.pc = "extra_header"
    /\ dec' = Stepped(AfterReads(dec.offset..(dec.offset + 4), {dec.offset, dec.offset + 3},
                 [dec EXCEPT !.pc = "extra_data",
                             !.fieldID = At(dec.offset) * 256 + At(dec.offset + 1),
                             !.fieldVersion = At(dec.offset + 2),
                             !.dataLength = At(dec.offset + 3) * 256 + At(dec.offset + 4),
                             !.offset = dec.offset + 5]))
    /\ DecodeFrame

\* lines 209-227: the test of the data length, fieldData, and the known
\* field, for which unmarshalUTLSSessionData(fieldData) is called and its
\* result returned
ExtraData ==
    /\ dec.pc = "extra_data"
    /\ dec' = Stepped(IF dec.offset + dec.dataLength > SliceLen
              THEN Return(NilData, Err("invalid extra data: field data incomplete", dec.i))
              ELSE AfterReads({}, {dec.offset, dec.offset + dec.dataLength},
                      IF dec.fieldVersion = SessionExtraVersion
                         /\ dec.fieldID = SessionExtraUTLSData
                      THEN [dec EXCEPT !.pc = "payload_len",
                                       !.lo = dec.lo + dec.offset,
                                       !.hi = dec.lo + dec.offset + dec.dataLength,
                                       !.offset = 0,
                                       !.hiRead = -1]
                      ELSE [dec EXCEPT !.pc = "extra_loop",
                                       !.offset = dec.offset + dec.dataLength,
                                       !.i = ToUint16(dec.i + 1)]))
    /\ DecodeFrame

\* unmarshalUTLSSessionData, lines 67-71
PayloadLen ==
    /\ dec.pc = "payload_len"
    /\ dec' = Stepped(IF SliceLen < 3
              THEN Return(NilData, Err("invalid UTLS session data: too short", -1))
              ELSE [dec EXCEPT !.pc = "payload_header", !.offset = 0])
    /\ DecodeFrame

\* lines 74-79: resume type and session ID length
PayloadHeader ==
    /\ dec.pc = "payload_header"
    /\ dec' = Stepped(AfterReads(dec.offset..(dec.offset + 2), {dec.offset + 1},
                 [dec EXCEPT !.pc = "payload_id",
                             !.resumeType = At(dec.offset),
                             !.sessionIDLen = At(dec.offset + 1) * 256 + At(dec.offset + 2),
                             !.offset = dec.offset + 3]))
    /\ DecodeFrame

\* lines 82-96: the test of the session ID length, the copy, the result
PayloadID ==
    /\ dec.pc = "payload_id"
    /\ dec' = Stepped(IF dec.offset + dec.sessionIDLen > SliceLen
              THEN Return(NilData,
                          Err("invalid UTLS session data: session ID incomplete", -1))
              ELSE IF dec.sessionIDLen > 0
              THEN AfterReads(dec.offset..(dec.offset + dec.sessionIDLen - 1),
                              {dec.offset, dec.offset + dec.sessionIDLen},
                      Return(Data(dec.resumeType,
                                  [k \in 1..dec.sessionIDLen |-> At(dec.offset + k - 1)]),
                             NoErr))
              ELSE Return(Data(dec.resumeType, << >>), NoErr))
    /\ DecodeFrame

DecodeNext ==
    \/ DecodeBegin
    \/ ExtraLen
    \/ ExtraVersion
    \/ ExtraCount
    \/ ExtraLoop
    \/ ExtraHeader
    \/ ExtraData
    \/ PayloadLen
    \/ PayloadHeader
    \/ PayloadID

SpecDecode == DecodeInit /\ [][DecodeNext]_vars

(***************************************************************************)
(* The key pool: claims C1 to C4, checked under Spec.                      *)
(***************************************************************************)

\* C1: under concurrent initializers and readers a cache's key list is
\* assigned exactly once: once its initialized flag is set, no step of any
\* call assigns the list again.
C1_KeysAssignedOnce ==
    [][\A c \in SupportedCurves : initialized[c] => keys'[c] = keys[c]]_vars

\* C2: whenever a cache's initialized flag is set, its key list is a complete
\* list of keyCacheSize slots that one initializer built, and a reader that
\* has observed the flag reads the slots of that list as the initializer
\* built them, never an unassigned or partially built list.
C2_FlagImpliesCompleteList ==
    /\ [](\A c \in SupportedCurves :
            initialized[c] =>
               /\ Len(keys[c]) = keyCacheSize
               /\ \E p \in Procs, failed \in FailSets : keys[c] = FilledKeys(c, p, failed))
    /\ [][\A p \in Procs :
            (pc[p] = "grk_read" /\ pc'[p] # "grk_read") =>
                /\ Len(keys[kc[p]]) = keyCacheSize
                /\ obs'[p] = keys[kc[p]][pick'[p] + 1]]_vars

\* C3: generateECDHEKey for a supported curve returns a non-nil key unless the
\* direct generation it attempted failed, and never returns a nil key together
\* with a nil error.
C3_AcquireReturnsKey ==
    \A p \in Procs :
        (pc[p] = "done" /\ op[p] = "generateECDHEKey") =>
            /\ ~(ret[p].err = ErrNone /\ ret[p].key = NilKey)
            /\ (curveID[p] \in SupportedCurves /\ gen[p] # "failed") =>
                  (ret[p].key # NilKey /\ ret[p].err = ErrNone)

\* after an InitAllKeyCaches has returned, a call drew a slot whose generation
\* had failed in a partially populated pool, and returned a directly generated
\* key
C3_AbsentSlotFallsBack ==
    \E p, q \in Procs :
        /\ pc[q] = "done" /\ op[q] = "InitAllKeyCaches"
        /\ pc[p] = "done" /\ op[p] = "generateECDHEKey"
        /\ curveID[p] \in SupportedCurves
        /\ initialized[kc[p]]
        /\ pick[p] >= 0
        /\ keys[kc[p]][pick[p] + 1] = NilKey
        /\ \E i \in 1..Len(keys[kc[p]]) : keys[kc[p]][i] # NilKey
        /\ gen[p] = "ok"
        /\ ret[p].key = NewKey(curveID[p], p, -1)
        /\ ret[p].err = ErrNone

\* C4: generateECDHEKey returns an error in exactly two cases, an unsupported
\* curve and a failed direct generation (so a failure during a pool fill is
\* never returned), and no step of a call for an unsupported curve changes a
\* pool's key list or flag.
C4_ErrorCases ==
    /\ [](\A p \in Procs :
            (pc[p] = "done" /\ op[p] = "generateECDHEKey") =>
                /\ ret[p].err \in {ErrNone, ErrUnsupported, ErrGenerate}
                /\ ret[p].err = ErrUnsupported <=> curveID[p] \notin SupportedCurves
                /\ ret[p].err = ErrGenerate <=>
                      (curveID[p] \in SupportedCurves /\ gen[p] = "failed"))
    /\ [][\A p \in Procs :
            (/\ pc'[p] # pc[p]
             /\ op'[p] = "generateECDHEKey"
             /\ curveID'[p] \notin SupportedCurves)
            => UNCHANGED <<keys, initialized>>]_vars

\* one call has returned the unsupported-curve error and another the error of
\* its direct generation, attempted after it drew a slot whose generation had
\* failed during the fill
C4_BothErrorsReturned ==
    \E p, q \in Procs :
        /\ pc[p] = "done" /\ op[p] = "generateECDHEKey"
        /\ ret[p].err = ErrUnsupported
        /\ pc[q] = "done" /\ op[q] = "generateECDHEKey"
        /\ pick[q] >= 0
        /\ ret[q].err = ErrGenerate

(***************************************************************************)
(* The codec functions: claims C5 to C7, checked under SpecCodec.          *)
(***************************************************************************)
IsValue(d) == ~d.isNil /\ Len(d.SessionID) <= MaxSessionIDLen

SameValue(v, d) ==
    /\ ~v.isNil
    /\ v.ResumeType = d.ResumeType
    /\ v.SessionID = d.SessionID

PayloadRoundTrip ==
    /\ bufOf = "marshalUTLSSessionData"
    /\ resOf = "unmarshalUTLSSessionData"

\* C5: for every value, of any resume type and session ID length 0..65535,
\* unmarshalUTLSSessionData(marshalUTLSSessionData(v)) returns no error and
\* a value with v's resume type and session ID.
C5_RoundTripEveryValue ==
    (PayloadRoundTrip /\ IsValue(data)) =>
        (res.err = NoErr /\ SameValue(res.val, data))

\* C5 as amended: the round trip holds for every value that is not logically
\* empty; the logically empty value is marshalled to nil, which
\* unmarshalUTLSSessionData rejects as too short.
C5_RoundTripNonEmptyValue ==
    (PayloadRoundTrip /\ IsValue(data)) =>
        IF IsEmptyData(data)
        THEN buf.isNil /\ res.err = Err("invalid UTLS session data: too short", -1)
        ELSE res.err = NoErr /\ SameValue(res.val, data)

\* the round trip of a session ticket value that carries the 32 ascending
\* bytes
C5_TicketRoundTrip ==
    /\ PayloadRoundTrip
    /\ data = Data(ResumeSessionTicket, Ascending(32))
    /\ Len(buf.bytes) = 35
    /\ res.err = NoErr
    /\ SameValue(res.val, data)

\* the container the claim describes for v: version, field count 1, the field
\* ID, the field version, the payload length in 16 bits, the payload
ContainerOf(v) ==
    LET n == Len(v.SessionID)
        payloadLength == 3 + n
    IN  <<1>> \o <<0, 1>> \o <<112, 1>> \o <<1>>
        \o <<payloadLength \div 256, payloadLength % 256>>
        \o (<<v.ResumeType>> \o <<n \div 256, n % 256>> \o v.SessionID)

WrapUnwrap(v) ==
    /\ ~buf.isNil
    /\ Len(buf.bytes) = 1 + 2 + 2 + 1 + 2 + (3 + Len(v.SessionID))
    /\ Uint16(buf.bytes, 6) = 3 + Len(v.SessionID)
    /\ buf.bytes = ContainerOf(v)
    /\ resOf = "unmarshalSessionExtra" =>
          (res.err = NoErr /\ SameValue(res.val, v))

\* C6: for every non-empty value with a session ID of 0..65535 bytes,
\* marshalSessionExtra returns the container of 8 + 3 + len(sessionID) bytes
\* whose data length is the payload length, and unmarshalSessionExtra of that
\* buffer returns the value.
C6_WrapUnwrapEveryLength ==
    (bufOf = "marshalSessionExtra" /\ IsValue(data) /\ ~IsEmptyData(data)) =>
        WrapUnwrap(data)

\* the container is laid out and unwrapped as described for session IDs of
\* 0..65532 bytes, the lengths whose payload length fits the 16-bit data
\* length written at src/u_session_extra.go line 153
C6_WrapUnwrapUpTo65532 ==
    (/\ bufOf = "marshalSessionExtra"
     /\ IsValue(data)
     /\ ~IsEmptyData(data)
     /\ Len(data.SessionID) <= MaxSessionIDLen - 3) =>
        WrapUnwrap(data)

\* the 32 ascending bytes wrapped into 43 bytes and unwrapped again
C6_Example43Bytes ==
    /\ bufOf = "marshalSessionExtra"
    /\ data = Data(ResumeSessionID, Ascending(32))
    /\ Len(buf.bytes) = 43
    /\ Uint16(buf.bytes, 6) = 35
    /\ resOf = "unmarshalSessionExtra"
    /\ res.err = NoErr
    /\ SameValue(res.val, data)

\* C7: marshalUTLSSessionData and marshalSessionExtra return nil exactly for
\* the logically empty value (resume type Unknown and no session ID).
C7_NilIffEmpty ==
    (bufOf \in {"marshalUTLSSessionData", "marshalSessionExtra"} /\ IsValue(data)) =>
        (buf.isNil <=> (data.ResumeType = ResumeUnknown /\ Len(data.SessionID) = 0))

\* a value of resume type Unknown that carries a session ID is wrapped
C7_UnknownWithIDEncoded ==
    /\ bufOf = "marshalSessionExtra"
    /\ ~data.isNil
    /\ data.ResumeType = ResumeUnknown
    /\ Len(data.SessionID) > 0
    /\ ~buf.isNil
    /\ Len(buf.bytes) > 0

(***************************************************************************)
(* The record operations: claims C8 to C10, checked under SpecRecord.      *)
(***************************************************************************)
\* the slots whose first byte is the version byte, and the others
OwnedSlots(s) == SelectSeq(s, LAMBDA x : Len(x) > 0 /\ x[1] = 1)
ForeignSlots(s) == SelectSeq(s, LAMBDA x : Len(x) = 0 \/ x[1] # 1)

IsNonEmptyArg(d) == ~d.isNil /\ ~(d.ResumeType = ResumeUnknown /\ Len(d.SessionID) = 0)

\* C8: after SetSessionExtraFields with a non-empty value the record holds
\* exactly one slot of the codec; after SetSessionExtraFields with a logically
\* empty value, or ClearSessionExtraFields, it holds none.
C8_AtMostOneOwnedSlot ==
    /\ (lastOp = "SetSessionExtraFields" /\ IsNonEmptyArg(lastArg)) =>
          Len(OwnedSlots(extra)) = 1
    /\ (lastOp = "SetSessionExtraFields" /\ ~IsNonEmptyArg(lastArg)) =>
          Len(OwnedSlots(extra)) = 0
    /\ lastOp = "ClearSessionExtraFields" => Len(OwnedSlots(extra)) = 0

\* a record that held two slots of the codec holds one after a set
C8_TwoOwnedReplacedByOne ==
    /\ lastOp = "SetSessionExtraFields"
    /\ IsNonEmptyArg(lastArg)
    /\ Len(OwnedSlots(prevExtra)) = 2
    /\ Len(OwnedSlots(extra)) = 1
    /\ extra[Len(extra)] = marshalSessionExtra(lastArg).bytes

\* C9: the foreign slots are the same, in the same order, after
\* ClearSessionExtraFields, after SetSessionExtraFields, and after a set
\* followed by a clear; HasSessionExtra and GetSessionExtraFields change no
\* slot.
C9_ForeignSlotsKept ==
    /\ lastOp \in {"SetSessionExtraFields", "ClearSessionExtraFields"} =>
          ForeignSlots(extra) = ForeignSlots(prevExtra)
    /\ (lastOp = "ClearSessionExtraFields" /\ prevOp = "SetSessionExtraFields") =>
          /\ ForeignSlots(extra) = ForeignSlots(prev2Extra)
          /\ extra = ForeignSlots(prev2Extra)
    /\ lastOp \in {"HasSessionExtra", "GetSessionExtraFields"} => extra = prevExtra

\* two different foreign slots around a slot of the codec, set and cleared
C9_TwoForeignAroundOwned ==
    /\ lastOp = "ClearSessionExtraFields"
    /\ prevOp = "SetSessionExtraFields"
    /\ Len(prev2Extra) = 3
    /\ Len(OwnedSlots(prev2Extra)) = 1
    /\ Len(prev2Extra[2]) > 0 /\ prev2Extra[2][1] = 1
    /\ prev2Extra[1] # prev2Extra[3]
    /\ Len(prevExtra) = 3
    /\ extra = <<prev2Extra[1], prev2Extra[3]>>

\* C10: a second ClearSessionExtraFields in a row leaves the slots as the
\* first left them.
C10_ClearIdempotent ==
    (lastOp = "ClearSessionExtraFields" /\ prevOp = "ClearSessionExtraFields") =>
        extra = prevExtra

\* two clears in a row of a record that held slots of both kinds
C10_ClearedTwice ==
    /\ lastOp = "ClearSessionExtraFields"
    /\ prevOp = "ClearSessionExtraFields"
    /\ Len(OwnedSlots(prev2Extra)) = 2
    /\ Len(ForeignSlots(prev2Extra)) >= 1
    /\ extra = ForeignSlots(prev2Extra)

(***************************************************************************)
(* unmarshalSessionExtra on received buffers: claims C11 to C13, checked   *)
(* under SpecCodec.                                                        *)
(***************************************************************************)
\* unmarshalSessionExtra has been applied to the buffer
Unwrapped == ~buf.isNil /\ resOf = "unmarshalSessionExtra"

\* C11: for every buffer that is empty or whose first byte is not the version
\* byte 0x01, whatever its length and the bytes that follow,
\* unmarshalSessionExtra returns (nil, nil).
C11_OtherVersionIsNoData ==
    (Unwrapped /\ (Len(buf.bytes) = 0 \/ buf.bytes[1] # 1)) =>
        (res.val = NilData /\ res.err = NoErr)

\* the known field: ID 0x7001 and field version 0x01
IsKnownField(f) == f.ID = 28673 /\ f.Version = 1

\* what the claim expects of the container of the fields fs: the decode of the
\* payload of the first known field, or (nil, nil) if there is none
RECURSIVE DecodeOfFirstKnown(_)
DecodeOfFirstKnown(fs) ==
    IF Len(fs) = 0
    THEN [val |-> NilData, err |-> NoErr]
    ELSE IF IsKnownField(Head(fs))
    THEN unmarshalUTLSSessionData(Head(fs).Data)
    ELSE DecodeOfFirstKnown(Tail(fs))

\* the well-formed containers of version 0x01, with the fields they carry
WellFormed == {[bytes |-> Container(1, Len(fs), fs), fields |-> fs] : fs \in FieldSeqs}

\* C12: for every well-formed container of version 0x01, the fields whose ID
\* is not 0x7001 or whose version is not 0x01 are stepped over by their
\* declared length: the result is (nil, nil) if no field is the known one, and
\* the decode of the payload of the first known field otherwise.
C12_UnknownFieldsSkipped ==
    Unwrapped =>
        \A w \in WellFormed :
            buf.bytes = w.bytes => res = DecodeOfFirstKnown(w.fields)

\* a field with another ID and a field of another version, both with data,
\* stepped over before the known field, whose session ID is returned
C12_KnownFieldAfterTwoSkipped ==
    /\ Unwrapped
    /\ \E fs \in FieldSeqs :
          /\ Len(fs) = 2
          /\ fs[1].ID # 28673 /\ Len(fs[1].Data) > 0
          /\ ~IsKnownField(fs[2])
          /\ \E f \in FieldSample :
                /\ IsKnownField(f)
                /\ buf.bytes = Container(1, 3, fs \o <<f>>)
                /\ res.err = NoErr
                /\ res.val = Data(f.Data[1], SubSeq(f.Data, 4, Len(f.Data)))
                /\ Len(res.val.SessionID) > 0

\* from field i at offset `offset`, one of the declared fields has a header or
\* a declared data length that extends past the end of the buffer
RECURSIVE TruncatedField(_, _, _, _)
TruncatedField(b, count, i, offset) ==
    IF i >= count
    THEN FALSE
    ELSE IF offset + 5 > Len(b)
    THEN TRUE
    ELSE IF offset + 5 + Uint16(b, offset + 3) > Len(b)
    THEN TRUE
    ELSE TruncatedField(b, count, i + 1, offset + 5 + Uint16(b, offset + 3))

\* the same, for the fields up to the first known field only
RECURSIVE TruncatedUpToKnown(_, _, _, _)
TruncatedUpToKnown(b, count, i, offset) ==
    IF i >= count
    THEN FALSE
    ELSE IF offset + 5 > Len(b)
    THEN TRUE
    ELSE IF offset + 5 + Uint16(b, offset + 3) > Len(b)
    THEN TRUE
    ELSE IF Uint16(b, offset) = 28673 /\ b[offset + 3] = 1
    THEN FALSE
    ELSE TruncatedUpToKnown(b, count, i + 1, offset + 5 + Uint16(b, offset + 3))

\* C13: for every buffer with version byte 0x01 whose field count is cut off,
\* or one of whose declared fields has a header or a data length that extends
\* past the end of the buffer, unmarshalSessionExtra returns an error and no
\* value.
C13_TruncationReported ==
    (/\ Unwrapped
     /\ Len(buf.bytes) >= 1
     /\ buf.bytes[1] = 1
     /\ \/ Len(buf.bytes) < 3
        \/ TruncatedField(buf.bytes, Uint16(buf.bytes, 1), 0, 3)) =>
        (res.err # NoErr /\ res.val = NilData)

\* C13 as amended: the same for the field count and for the fields up to and
\* including the first known field, at which the walk ends; the error of a
\* field names the index of that field.
C13_TruncationUpToKnownReported ==
    (/\ Unwrapped
     /\ Len(buf.bytes) >= 1
     /\ buf.bytes[1] = 1
     /\ \/ Len(buf.bytes) < 3
        \/ TruncatedUpToKnown(buf.bytes, Uint16(buf.bytes, 1), 0, 3)) =>
        /\ res.err # NoErr
        /\ res.val = NilData
        /\ res.err.msg \in {"invalid extra data: too short",
                             "invalid extra data: field header incomplete",
                             "invalid extra data: field data incomplete"}
        /\ Len(buf.bytes) >= 3 =>
              /\ res.err.field \in 0..(Uint16(buf.bytes, 1) - 1)
              /\ ~TruncatedUpToKnown(buf.bytes, res.err.field, 0, 3)
              /\ TruncatedUpToKnown(buf.bytes, res.err.field + 1, 0, 3)

\* a whole skipped field followed by a field whose data is cut off: the error
\* names field 1
C13_SecondFieldCutOff ==
    /\ Unwrapped
    /\ Len(buf.bytes) >= 3 + 5 + 5
    /\ buf.bytes[1] = 1
    /\ Uint16(buf.bytes, 1) >= 2
    /\ ~TruncatedUpToKnown(buf.bytes, 1, 0, 3)
    /\ TruncatedUpToKnown(buf.bytes, 2, 0, 3)
    /\ res.err = Err("invalid extra data: field data incomplete", 1)
    /\ res.val = NilData

(***************************************************************************)
(* The decoders statement by statement: claim C14, checked under           *)
(* SpecDecode.                                                             *)
(***************************************************************************)
\* the call has returned what the function, taken as a whole, returns
DecodeAgrees ==
    dec.pc = "done" =>
        dec.res = IF dec.fn = "unmarshalSessionExtra"
                  THEN unmarshalSessionExtra(dec.in)
                  ELSE unmarshalUTLSSessionData(dec.in)

\* no statement has panicked, every index read lies in the slice the function
\* works on, and its offset is within that slice
DecodeInBounds ==
    dec.pc # "idle" =>
        /\ dec.pc # "panic"
        /\ dec.hiRead < dec.hi - dec.lo
        /\ dec.offset >= 0 /\ dec.offset <= dec.hi - dec.lo
        /\ dec.lo >= 0 /\ dec.hi <= Len(dec.in)

\* unmarshalUTLSSessionData returns "too short" for fewer than 3 bytes and
\* "incomplete" for a declared session ID length beyond the bytes that follow
PayloadErrors ==
    (dec.pc = "done" /\ dec.fn = "unmarshalUTLSSessionData") =>
        /\ Len(dec.in) < 3 =>
              dec.res = [val |-> NilData,
                         err |-> Err("invalid UTLS session data: too short", -1)]
        /\ (Len(dec.in) >= 3 /\ Uint16(dec.in, 1) > Len(dec.in) - 3) =>
              dec.res = [val |-> NilData,
                         err |-> Err("invalid UTLS session data: session ID incomplete", -1)]

\* the call returns: until it has, a next statement can be taken, and it
\* takes no more statements than the begin, the three statements before the
\* loop, three for each field (each field takes five bytes or more), the
\* last test of the loop and the three of unmarshalUTLSSessionData
DecodeTerminates ==
    dec.pc # "idle" =>
        /\ dec.steps <= 8 + 3 * (Len(dec.in) \div 5)
        /\ dec.pc # "done" => ENABLED DecodeNext

\* C14: on every buffer both decoders terminate, read no index at or beyond
\* the length of the buffer they work on, keep the offset of the field walk
\* within the buffer, and unmarshalUTLSSessionData returns the "too short"
\* and the "incomplete" error in the cases named.
C14_DecodersMemorySafe == DecodeInBounds /\ PayloadErrors /\ DecodeTerminates

\* unmarshalSessionExtra stepped over a field, read the header of a second
\* field up to the last byte of the buffer, and reported its data incomplete
C14_HeaderReadToLastByte ==
    /\ dec.pc = "done"
    /\ dec.fn = "unmarshalSessionExtra"
    /\ dec.i = 1
    /\ dec.offset = Len(dec.in)
    /\ dec.hiRead = Len(dec.in) - 1
    /\ dec.dataLength > 0
    /\ dec.res.err = Err("invalid extra data: field data incomplete", 1)

(***************************************************************************)
(* GetSessionExtraFields and the slots before the container: claim C15,    *)
(* checked under SpecRecord.                                               *)
(***************************************************************************)
\* the non-empty values whose containers the records of the model hold
StoredValues == {d \in ArgSample : IsNonEmptyArg(d)}

\* slot x is the container marshalSessionExtra writes for some value
IsContainer(x) == \E v \in StoredValues : x = marshalSessionExtra(v).bytes

\* C15: for every record that holds the container of a non-empty value v
\* after any number of other slots, among them slots that begin with 0x01
\* without being a container of this codec (corrupt ones, or ones that
\* foreign code wrote), GetSessionExtraFields returns a value equal to v.
C15_GetSkipsCorruptSlots ==
    lastOp = "GetSessionExtraFields" =>
        \A k \in 1..Len(extra) : \A v \in StoredValues :
            (/\ extra[k] = marshalSessionExtra(v).bytes
             /\ \A j \in 1..(k - 1) : ~IsContainer(extra[j])) =>
                SameValue(got, v)

(***************************************************************************)
(* key_schedule.go: the traffic keys.                                      *)
(***************************************************************************)
\* the length of the nonce of every TLS 1.3 AEAD
aeadNonceLength == 12

\* the cipherSuiteTLS13 values: the hash and the AEAD key length of a suite
CipherSuites ==
    { [id |-> "TLS_AES_128_GCM_SHA256", hash |-> "SHA256", keyLen |-> 16],
      [id |-> "TLS_AES_256_GCM_SHA384", hash |-> "SHA384", keyLen |-> 32],
      [id |-> "TLS_CHACHA20_POLY1305_SHA256", hash |-> "SHA256", keyLen |-> 32] }

\* the traffic secrets given to trafficKey
Secrets == SeqsUpTo({0, 255}, 1)

\* tls13.ExpandLabel: HKDF-Expand-Label of RFC 8446, section 7.1, a function
\* of the hash, the secret, the label, the context and the length alone,
\* which returns `length` bytes; equal outputs come from equal inputs only
ExpandLabel(hash, secret, label, context, length) ==
    [hash |-> hash, secret |-> secret, label |-> label, context |-> context,
     length |-> length]

\* len() of an output of ExpandLabel
OutLen(out) == out.length

\* a trafficKey that derives the key with the label of the IV and the IV
\* with the label of the key
trafficKeyLabelsSwapped(c, trafficSecret) ==
    [key |-> ExpandLabel(c.hash, trafficSecret, "iv", NilBytes, c.keyLen),
     iv  |-> ExpandLabel(c.hash, trafficSecret, "key", NilBytes, aeadNonceLength)]

\* trafficKey, lines 102-106
trafficKey(c, trafficSecret) ==
    [key |-> ExpandLabel(c.hash, trafficSecret, "key", NilBytes, c.keyLen),
     iv  |-> ExpandLabel(c.hash, trafficSecret, "iv", NilBytes, aeadNonceLength)]

(***************************************************************************)
(* SpecTraffic: goroutines call trafficKey, each any number of times, on   *)
(* a process whose key pool is untouched or was filled by InitAllKeyCaches.*)
(***************************************************************************)
\* the caches at the start: all zero, or all filled by goroutine 1
PoolStarts == {{}, SupportedCurves}

TrafficInit ==
    \E filled \in PoolStarts :
        /\ keys = [c \in SupportedCurves |->
                      IF c \in filled THEN FilledKeys(c, 1, {}) ELSE << >>]
        /\ initialized = [c \in SupportedCurves |-> c \in filled]
        /\ pc = [p \in Procs |-> IF p = 1 /\ filled # {} THEN "done" ELSE "idle"]
        /\ op = [p \in Procs |->
                    IF p = 1 /\ filled # {} THEN "InitAllKeyCaches" ELSE "none"]
        /\ curveID = [p \in Procs |-> "none"]
        /\ kc = [p \in Procs |-> "none"]
        /\ newKeys = [p \in Procs |-> << >>]
        /\ pick = [p \in Procs |-> -1]
        /\ gen = [p \in Procs |-> "none"]
        /\ ret = [p \in Procs |-> NoRet]
        /\ obs = [p \in Procs |-> NilKey]
        /\ writer = [c \in SupportedCurves |-> IF c \in filled THEN 1 ELSE 0]
        /\ stored = [c \in SupportedCurves |-> IF c \in filled THEN {1} ELSE {}]
        /\ acq = [p \in Procs |-> {}]
        /\ data = NilData
        /\ buf = NilBytes
        /\ bufOf = "none"
        /\ res = NoRes
        /\ resOf = "none"
        /\ extra = << >>
        /\ lastOp = "none"
        /\ lastArg = NilData
        /\ prevExtra = << >>
        /\ prev2Extra = << >>
        /\ prevOp = "none"
        /\ has = FALSE
        /\ got = NilData
        /\ dec = NoCall
        /\ tk = [p \in Procs |-> NoTrafficKey]

\* goroutine p calls c.trafficKey(trafficSecret) and keeps the results
CallTrafficKey(p) ==
    \E c \in CipherSuites : \E trafficSecret \in Secrets :
        /\ tk' = [tk EXCEPT ![p] =
                     [called |-> TRUE, c |-> c, trafficSecret |-> trafficSecret,
                      key |-> trafficKey(c, trafficSecret).key,
                      iv |-> trafficKey(c, trafficSecret).iv]]
        /\ UNCHANGED <<poolVars, codecVars, recordVars, decodeVars>>

TrafficNext == \E p \in Procs : CallTrafficKey(p)

SpecTraffic == TrafficInit /\ [][TrafficNext]_vars

(***************************************************************************)
(* trafficKey: claim C16, checked under SpecTraffic.                       *)
(***************************************************************************)
\* the results of a call are those the claim describes
KeyAndIVOf(t) ==
    /\ OutLen(t.key) = t.c.keyLen
    /\ t.key.label = "key"
    /\ OutLen(t.iv) = aeadNonceLength
    /\ t.iv.label = "iv"
    /\ t.key.secret = t.trafficSecret /\ t.iv.secret = t.trafficSecret
    /\ t.key.context = NilBytes /\ t.iv.context = NilBytes
    /\ t.key.hash = t.c.hash /\ t.iv.hash = t.c.hash

\* C16 (results): every call of trafficKey returns a key of the AEAD key
\* length of its suite derived with the label "key" and an IV of the nonce
\* length derived with the label "iv", both from the secret given and with
\* no context; two calls on the same suite with the same secret, made by
\* any goroutines and over any state of the key pool, return the same key
\* and the same IV.
C16_KeyAndIVDerived ==
    /\ \A p \in Procs : tk[p].called => KeyAndIVOf(tk[p])
    /\ \A p, q \in Procs :
          (/\ tk[p].called /\ tk[q].called
           /\ tk[p].c = tk[q].c
           /\ tk[p].trafficSecret = tk[q].trafficSecret) =>
              (tk[p].key = tk[q].key /\ tk[p].iv = tk[q].iv)

\* C16 (frame): a call of trafficKey writes no shared state: the key pool,
\* the session record and every other goroutine's results stay as they are.
C16_NoSharedState ==
    \A p \in Procs :
        (tk'[p] # tk[p]) =>
            /\ UNCHANGED <<poolVars, codecVars, recordVars, decodeVars>>
            /\ \A q \in Procs \ {p} : tk'[q] = tk[q]

StepOf(p) == pc'[p] # pc[p]

\* generateECDHEKey for a supported curve has returned: the flag of the
\* cache of that curve is set
AcquiredIsInitialized ==
    \A p \in Procs :
        (/\ pc[p] = "done" /\ op[p] = "generateECDHEKey"
         /\ curveID[p] \in SupportedCurves) =>
            initialized[curveID[p]]

\* a step of a generateECDHEKey call leaves the key list and the flag of
\* the cache of every other curve as they are
OtherCachesUnchanged ==
    \A p \in Procs :
        (StepOf(p) /\ op'[p] = "generateECDHEKey") =>
            \A c \in SupportedCurves \ {curveID'[p]} :
                keys'[c] = keys[c] /\ initialized'[c] = initialized[c]

\* the flag of a cache is set by a step of InitAllKeyCaches or of a
\* generateECDHEKey call for the curve of that cache, by nothing else
InitializedOnlyByOwnCall ==
    \A c \in SupportedCurves :
        (initialized'[c] /\ ~initialized[c]) =>
            \E p \in Procs :
                /\ StepOf(p)
                /\ \/ op[p] = "InitAllKeyCaches"
                   \/ op[p] = "generateECDHEKey" /\ curveID[p] = c

\* C17: the caches are filled lazily and one by one: when generateECDHEKey
\* for a supported curve returns the flag of that curve's cache is set, the
\* call changes neither the key list nor the flag of any other curve's
\* cache, and the cache of a curve nobody asked a key for is initialized by
\* InitAllKeyCaches only.
C17_LazyPerGroup ==
    /\ []AcquiredIsInitialized
    /\ [][OtherCachesUnchanged /\ InitializedOnlyByOwnCall]_vars

\* a key for CurveP384 came from its cache, filled by that call, while the
\* caches of the other curves are still the zero value
C17_OnlyP384Filled ==
    \E p \in Procs :
        /\ pc[p] = "done" /\ op[p] = "generateECDHEKey"
        /\ curveID[p] = "CurveP384"
        /\ ret[p].err = ErrNone /\ ret[p].key.slot >= 0
        /\ writer["CurveP384"] = p
        /\ \A c \in SupportedCurves \ {"CurveP384"} :
              ~initialized[c] /\ keys[c] = << >>

(***************************************************************************)
(* SpecSetGet: the four operations on a SessionState, with the values      *)
(* given to SetSessionExtraFields reaching the longest session ID that a   *)
(* container holds; each behaviour makes a few calls on its record.        *)
(***************************************************************************)
\* the records at the start: fewer slots than in SpecRecord
SetGetRecords == SeqsUpTo(SlotSample, MaxSlots - 1)

\* the values given to SetSessionExtraFields: those of SpecRecord, one with
\* a session ID whose length needs both bytes, and one with the longest
\* session ID whose payload length fits the uint16 of the field header
SetGetArgs ==
    ArgSample \cup
    { Data(ResumeSessionID, Ascending(MaxSessionIDLen \div 255 + 43)),
      Data(ResumeSessionTicket, Ascending(MaxSessionIDLen - 3)) }

SetGetInit ==
    /\ extra \in SetGetRecords
    /\ lastOp = "none"
    /\ lastArg = NilData
    /\ prevExtra = << >>
    /\ prev2Extra = << >>
    /\ prevOp = "none"
    /\ has = FALSE
    /\ got = NilData
    /\ dec = NoCall
    /\ tk = [p \in Procs |-> NoTrafficKey]
    /\ keys = [c \in SupportedCurves |-> << >>]
    /\ initialized = [c \in SupportedCurves |-> FALSE]
    /\ pc = [p \in Procs |-> "idle"]
    /\ op = [p \in Procs |-> "none"]
    /\ curveID = [p \in Procs |-> "none"]
    /\ kc = [p \in Procs |-> "none"]
    /\ newKeys = [p \in Procs |-> << >>]
    /\ pick = [p \in Procs |-> -1]
    /\ gen = [p \in Procs |-> "none"]
    /\ ret = [p \in Procs |-> NoRet]
    /\ obs = [p \in Procs |-> NilKey]
    /\ writer = [c \in SupportedCurves |-> 0]
    /\ stored = [c \in SupportedCurves |-> {}]
    /\ acq = [p \in Procs |-> {}]
    /\ data = NilData
    /\ buf = NilBytes
    /\ bufOf = "none"
    /\ res = NoRes
    /\ resOf = "none"

\* the calls made on the record so far, counted up to two
CallsMade == IF lastOp = "none" THEN 0 ELSE IF prevOp = "none" THEN 1 ELSE 2

\* a behaviour makes up to MaxCalls calls on its record
SetGetHas == CallsMade < MaxCalls /\ CallHasSessionExtra
SetGetGet == CallsMade < MaxCalls /\ CallGetSessionExtraFields
SetGetSet == CallsMade < MaxCalls /\ \E d \in SetGetArgs : CallSetSessionExtraFields(d)
SetGetClear == CallsMade < MaxCalls /\ CallClearSessionExtraFields

SetGetNext ==
    \/ SetGetHas
    \/ SetGetGet
    \/ SetGetSet
    \/ SetGetClear

SpecSetGet == SetGetInit /\ [][SetGetNext]_vars

(***************************************************************************)
(* Set, then Has and Get: claim C18, checked under SpecSetGet.             *)
(***************************************************************************)
\* the last call was HasSessionExtra or GetSessionExtraFields, made right
\* after the call `name`
HasAfter(name) == lastOp = "HasSessionExtra" /\ prevOp = name
GetAfter(name) == lastOp = "GetSessionExtraFields" /\ prevOp = name

\* the values the claim speaks of: non-empty, session ID of at most 65532
\* bytes
Storable(d) == IsNonEmptyArg(d) /\ Len(d.SessionID) <= MaxSessionIDLen - 3

\* C18: on every record, whatever foreign slots and slots beginning with
\* the version byte it held, HasSessionExtra called after
\* SetSessionExtraFields(s, v) for a non-empty v with a session ID of at most
\* 65532 bytes returns true and GetSessionExtraFields returns a value equal
\* to v; called after SetSessionExtraFields with nil or a logically empty
\* value, or after ClearSessionExtraFields, they return false and nil.
C18_SetThenGet ==
    /\ (HasAfter("SetSessionExtraFields") /\ Storable(lastArg)) => has
    /\ (GetAfter("SetSessionExtraFields") /\ Storable(lastArg)) =>
          SameValue(got, lastArg)
    /\ (HasAfter("SetSessionExtraFields") /\ ~IsNonEmptyArg(lastArg)) => ~has
    /\ (GetAfter("SetSessionExtraFields") /\ ~IsNonEmptyArg(lastArg)) => got.isNil
    /\ HasAfter("ClearSessionExtraFields") => ~has
    /\ GetAfter("ClearSessionExtraFields") => got.isNil

\* a record that held a foreign slot and a slot with the version byte that
\* does not decode was given a value with a 300-byte session ID, which
\* GetSessionExtraFields then returned
C18_GetAfterSetOnMixedRecord ==
    /\ GetAfter("SetSessionExtraFields")
    /\ Len(lastArg.SessionID) = MaxSessionIDLen \div 255 + 43
    /\ prev2Extra = << <<SessionExtraVersion, 0, 1>>, <<0>> >>
    /\ SameValue(got, lastArg)
    /\ Len(extra) = 2

====
